---- MODULE Spec2Model ----
(***************************************************************************)
(* Model of vigra's ArrayVectorView / ArrayVector                          *)
(* (include/vigra/array_vector.hxx).                                       *)
(*                                                                         *)
(* Memory is a heap of blocks handed out by the allocator.  A block is a   *)
(* sequence of slots; a slot holds a value or Raw (allocated, but no       *)
(* element constructed in it).  A pointer is a block id plus a 0-based     *)
(* offset, as in data_ + k.  Every method is translated statement by       *)
(* statement into an operator over a memory state st and an array record.  *)
(***************************************************************************)
EXTENDS Integers, Sequences, FiniteSets, TLC

\* ---- bounds of the exploration ----
MaxCap == 4          \* no operation is started that would need a larger block
MaxInit == 2         \* longest sequence an array is constructed from
MaxView == 4         \* longest array the view operations are explored on
MaxPush == 9         \* longest run of push_back calls on an array of capacity 0
SizeBits == 5        \* width of size_type in the model
MaxWrap == 2         \* how far from half the size range lengths are explored

\* ---- program constants ----
minimumCapacity == 2
Null == 0            \* the null pointer
Raw == 0             \* content of a slot that holds no constructed element
NBlocks == 3         \* blocks the allocator can have outstanding at once

Val == {1, 2}        \* element values the array operations are explored with
Blocks == 1..NBlocks
Views == {"v", "w"}

VARIABLES heap, arr, view, hist
vars == <<heap, arr, view, hist>>

\* sequences over S of length at most n
BSeq(S, n) == UNION {[1..k -> S] : k \in 0..n}

\* ------------------------------------------------------------------------
\* The allocator and the element-level primitives
\* ------------------------------------------------------------------------
FreeBlock == [live |-> FALSE, mem |-> <<>>]

\* memory state threaded through a method: the heap, the pointer returned by
\* the last allocation, what the method did wrong or used so far (missized:
\* a block was given back with another slot count than it was allocated
\* with), and fuel, the number of allocations the memory provider will still
\* grant
MemState(h) ==
    [heap |-> h, ptr |-> Null, bad |-> FALSE, dangling |-> FALSE,
     err |-> "none", allocs |-> 0, frees |-> 0, fuel |-> NBlocks,
     missized |-> FALSE]

\* the memory provider grants f more allocations and then fails
Provider(st, f) == [st EXCEPT !.fuel = f]

\* an exception is propagating
Thrown(st) == st.err # "none"

FreeIds(h) == {b \in Blocks : ~h[b].live}

\* is data + i a slot of a live block?
InBlock(h, b, i) ==
    /\ b \in Blocks
    /\ h[b].live
    /\ i >= 0
    /\ i < Len(h[b].mem)

Constructed(h, b, i) == InBlock(h, b, i) /\ h[b].mem[i + 1] # Raw

\* alloc_.allocate(n): a fresh block of n raw slots (lowest free address),
\* or std::bad_alloc (MemoryExhaustion) when the provider grants no more
allocate(st, n) ==
    IF st.fuel = 0 \/ FreeIds(st.heap) = {}
    THEN [st EXCEPT !.err = "MemoryExhaustion", !.ptr = Null]
    ELSE LET b == CHOOSE x \in FreeIds(st.heap) : \A y \in FreeIds(st.heap) : x <= y
         IN [st EXCEPT !.heap[b] = [live |-> TRUE, mem |-> [k \in 1..n |-> Raw]],
                       !.ptr = b,
                       !.allocs = @ + 1,
                       !.fuel = @ - 1]

\* alloc_.deallocate(data, n): the block goes back to the allocator
alloc_deallocate(st, b, n) ==
    IF b \in Blocks /\ st.heap[b].live
    THEN [st EXCEPT !.heap[b] = FreeBlock, !.frees = @ + 1,
                    !.missized = @ \/ n # Len(st.heap[b].mem)]
    ELSE [st EXCEPT !.bad = TRUE]

\* alloc_.construct(data + i, v): placement-construct v in a raw slot
construct(st, b, i, v) ==
    IF InBlock(st.heap, b, i) /\ ~Constructed(st.heap, b, i) /\ v # Raw
    THEN [st EXCEPT !.heap[b].mem[i + 1] = v]
    ELSE [st EXCEPT !.bad = TRUE]

\* data[i] = v: assignment to a constructed element
assign(st, b, i, v) ==
    IF Constructed(st.heap, b, i) /\ v # Raw
    THEN [st EXCEPT !.heap[b].mem[i + 1] = v]
    ELSE [st EXCEPT !.bad = TRUE]

\* alloc_.destroy(data + i): the element's lifetime ends, the slot is raw
destroy(st, b, i) ==
    IF Constructed(st.heap, b, i)
    THEN [st EXCEPT !.heap[b].mem[i + 1] = Raw]
    ELSE [st EXCEPT !.bad = TRUE]

\* the value read through data[i]; Raw when there is no element to read
load(st, b, i) == IF Constructed(st.heap, b, i) THEN st.heap[b].mem[i + 1] ELSE Raw

\* The loops below run element by element in the order of the library's
\* algorithms; none of them runs while an exception propagates.

\* detail::destroy_n(data + i, n)
RECURSIVE destroy_n(_, _, _, _)
destroy_n(st, b, i, n) ==
    IF Thrown(st) THEN st
    ELSE IF n <= 0 THEN st
    ELSE destroy_n(destroy(st, b, i), b, i + 1, n - 1)

\* std::copy(sb + first, sb + last, db + d)
RECURSIVE std_copy(_, _, _, _, _, _)
std_copy(st, sb, first, last, db, d) ==
    IF Thrown(st) THEN st
    ELSE IF first = last THEN st
    ELSE IF first > last THEN [st EXCEPT !.bad = TRUE]
    ELSE std_copy(assign(st, db, d, load(st, sb, first)),
                  sb, first + 1, last, db, d + 1)

\* std::copy_backward(sb + first, sb + last, db + dlast)
RECURSIVE std_copy_backward(_, _, _, _, _, _)
std_copy_backward(st, sb, first, last, db, dlast) ==
    IF Thrown(st) THEN st
    ELSE IF first = last THEN st
    ELSE IF first > last THEN [st EXCEPT !.bad = TRUE]
    ELSE std_copy_backward(assign(st, db, dlast - 1, load(st, sb, last - 1)),
                           sb, first, last - 1, db, dlast - 1)

\* std::uninitialized_copy(sb + first, sb + last, db + d)
RECURSIVE uninitialized_copy(_, _, _, _, _, _)
uninitialized_copy(st, sb, first, last, db, d) ==
    IF Thrown(st) THEN st
    ELSE IF first = last THEN st
    ELSE IF first > last THEN [st EXCEPT !.bad = TRUE]
    ELSE uninitialized_copy(construct(st, db, d, load(st, sb, first)),
                            sb, first + 1, last, db, d + 1)

\* std::uninitialized_copy / std::copy from a range outside the heap,
\* given as the sequence s of the values it yields
RECURSIVE uninitialized_copy_in(_, _, _, _)
uninitialized_copy_in(st, s, db, d) ==
    IF s = <<>> THEN st
    ELSE uninitialized_copy_in(construct(st, db, d, Head(s)), Tail(s), db, d + 1)

RECURSIVE std_copy_in(_, _, _, _)
std_copy_in(st, s, db, d) ==
    IF s = <<>> THEN st
    ELSE std_copy_in(assign(st, db, d, Head(s)), Tail(s), db, d + 1)

\* A value_type const & argument: a value living outside the heap
\* (blk = Null) or the element blk[idx].  Reading it after its block was
\* released is undefined: the read yields g, any value at all.
ExtRef(v) == [blk |-> Null, idx |-> 0, val |-> v]
ElemRef(b, i) == [blk |-> b, idx |-> i, val |-> Raw]

RefDangles(st, r) == r.blk # Null /\ ~Constructed(st.heap, r.blk, r.idx)
deref(st, r, g) ==
    IF r.blk = Null THEN r.val
    ELSE IF RefDangles(st, r) THEN g
    ELSE load(st, r.blk, r.idx)
noteRead(st, r) == IF RefDangles(st, r) THEN [st EXCEPT !.dangling = TRUE] ELSE st

\* *(b + i) = r, r a reference read at that moment
assign_from(st, b, i, r, g) == assign(noteRead(st, r), b, i, deref(st, r, g))

\* alloc_.construct(b + i, r), r a reference read at that moment
construct_from(st, b, i, r, g) == construct(noteRead(st, r), b, i, deref(st, r, g))

\* std::fill(b + first, b + last, v)
RECURSIVE std_fill(_, _, _, _, _, _)
std_fill(st, b, first, last, r, g) ==
    IF Thrown(st) THEN st
    ELSE IF first = last THEN st
    ELSE IF first > last THEN [st EXCEPT !.bad = TRUE]
    ELSE std_fill(assign_from(st, b, first, r, g),
                  b, first + 1, last, r, g)

\* std::uninitialized_fill(b + first, b + last, v)
RECURSIVE uninitialized_fill(_, _, _, _, _, _)
uninitialized_fill(st, b, first, last, r, g) ==
    IF Thrown(st) THEN st
    ELSE IF first = last THEN st
    ELSE IF first > last THEN [st EXCEPT !.bad = TRUE]
    ELSE uninitialized_fill(construct_from(st, b, first, r, g),
                            b, first + 1, last, r, g)

\* ------------------------------------------------------------------------
\* ArrayVectorView: {size_, data_}; data_ is the pointer data + off
\* ------------------------------------------------------------------------
NullView == [size |-> 0, data |-> Null, off |-> 0]
ArrayVectorView(size, data, off) == [size |-> size, data |-> data, off |-> off]

\* pointer comparison p <= q, addresses ordered by block, then offset
PtrLE(pb, po, qb, qo) == pb < qb \/ (pb = qb /\ po <= qo)
PtrEq(pb, po, qb, qo) == pb = qb /\ po = qo

\* vigra_precondition(cond, msg): throws PreconditionViolation
throw(st) == [st EXCEPT !.err = "PreconditionViolation"]

\* the elements a view addresses, as a sequence
Elems(h, data, off, size) == [k \in 1..size |-> IF InBlock(h, data, off + k - 1)
                                                THEN h[data].mem[off + k] ELSE Raw]
ViewElems(h, w) == Elems(h, w.data, w.off, w.size)

\* ArrayVectorView::copyImpl, mutated: always copies forward
copyImpl_forward(st, this, rhs) ==
    IF this.size # rhs.size THEN throw(st)
    ELSE std_copy(st, rhs.data, rhs.off, rhs.off + rhs.size, this.data, this.off)

\* ArrayVectorView::copyImpl
copyImpl(st, this, rhs) ==
    IF this.size # rhs.size THEN throw(st)
    ELSE IF PtrLE(this.data, this.off, rhs.data, rhs.off)
    THEN std_copy(st, rhs.data, rhs.off, rhs.off + rhs.size, this.data, this.off)
    ELSE std_copy_backward(st, rhs.data, rhs.off, rhs.off + rhs.size,
                           this.data, this.off + this.size)

\* ArrayVectorView::copy
copy(st, this, rhs) ==
    IF ~PtrEq(this.data, this.off, rhs.data, rhs.off)
    THEN copyImpl(st, this, rhs)
    ELSE st

\* ArrayVectorView::operator=, mutated: a view without elements is rebound
ArrayVectorView_assign_empty(st, this, rhs) ==
    IF this.size = 0
    THEN [st |-> st, this |-> ArrayVectorView(rhs.size, rhs.data, rhs.off)]
    ELSE IF ~PtrEq(this.data, this.off, rhs.data, rhs.off)
    THEN [st |-> copyImpl(st, this, rhs), this |-> this]
    ELSE [st |-> st, this |-> this]

\* ArrayVectorView::operator=(this_type const &); the view as it is after
\* the call is returned in this
ArrayVectorView_assign(st, this, rhs) ==
    IF this.data = Null
    THEN [st |-> st, this |-> ArrayVectorView(rhs.size, rhs.data, rhs.off)]
    ELSE IF ~PtrEq(this.data, this.off, rhs.data, rhs.off)
    THEN [st |-> copyImpl(st, this, rhs), this |-> this]
    ELSE [st |-> st, this |-> this]

\* ArrayVectorView::operator[]: the reference data()[i]
operator_index(this, i) == ElemRef(this.data, this.off + i)

\* ArrayVectorView::subarray, mutated: the view starts at data_
subarray_nooffset(st, this, begin, end) ==
    IF ~(begin >= 0 /\ begin <= end /\ end <= this.size)
    THEN [st |-> throw(st), ret |-> NullView]
    ELSE [st |-> st, ret |-> ArrayVectorView(end - begin, this.data, this.off)]

\* ArrayVectorView::subarray, mutated: end is not compared with size_
subarray_noendcheck(st, this, begin, end) ==
    IF ~(begin >= 0 /\ begin <= end)
    THEN [st |-> throw(st), ret |-> NullView]
    ELSE [st |-> st, ret |-> ArrayVectorView(end - begin, this.data, this.off + begin)]

\* ArrayVectorView::subarray; the view is returned in ret
subarray(st, this, begin, end) ==
    IF ~(begin >= 0 /\ begin <= end /\ end <= this.size)
    THEN [st |-> throw(st), ret |-> NullView]
    ELSE [st |-> st, ret |-> ArrayVectorView(end - begin, this.data, this.off + begin)]

\* ------------------------------------------------------------------------
\* ArrayVector: {size_, data_, capacity_}; data_ is the start of a block
\* ------------------------------------------------------------------------
\* size_type is an unsigned integer of SizeBits bits (the program's 32 bits do
\* not fit TLC's integers; wrap-around is the same at any width)
SizeMod == 2 ^ SizeBits

\* no array: what is left of one whose constructor threw
NoArray == [size |-> 0, data |-> Null, capacity |-> 0]

AsView(a) == ArrayVectorView(a.size, a.data, 0)
Contents(h, a) == Elems(h, a.data, 0, a.size)

\* ArrayVector::reserve_raw; the pointer is returned in st.ptr
reserve_raw(st, capacity) ==
    IF capacity # 0 THEN allocate(st, capacity)
    ELSE [st EXCEPT !.ptr = Null]

\* ArrayVector::deallocate
deallocate(st, data, size) ==
    IF data # Null
    THEN alloc_deallocate(destroy_n(st, data, 0, size), data, size)
    ELSE st

\* ArrayVector::ArrayVector()
ArrayVector_default(st) ==
    LET s1 == reserve_raw(st, minimumCapacity)
    IN IF Thrown(s1) THEN [st |-> s1, a |-> NoArray]
       ELSE [st |-> s1, a |-> [size |-> 0, data |-> s1.ptr, capacity |-> minimumCapacity]]

\* ArrayVector::ArrayVector(size_type size, value_type const & initial)
ArrayVector_fill(st, size, initial) ==
    LET s1 == reserve_raw(st, size)
        s2 == IF size > 0
              THEN uninitialized_fill(s1, s1.ptr, 0, size, ExtRef(initial), initial)
              ELSE s1
    IN IF Thrown(s1) THEN [st |-> s1, a |-> NoArray]
       ELSE [st |-> s2, a |-> [size |-> size, data |-> s1.ptr, capacity |-> size]]

\* ArrayVector::ArrayVector(this_type const & rhs)
ArrayVector_copy(st, rhs) ==
    LET s1 == reserve_raw(st, rhs.capacity)
        s2 == IF rhs.size > 0
              THEN uninitialized_copy(s1, rhs.data, 0, rhs.size, s1.ptr, 0)
              ELSE s1
    IN IF Thrown(s1) THEN [st |-> s1, a |-> NoArray]
       ELSE [st |-> s2, a |-> [size |-> rhs.size, data |-> s1.ptr, capacity |-> rhs.capacity]]

\* ArrayVector::ArrayVector(ArrayVectorView<U> const & rhs)
ArrayVector_view(st, rhs) ==
    LET s1 == reserve_raw(st, rhs.size)
        s2 == IF rhs.size > 0
              THEN uninitialized_copy(s1, rhs.data, rhs.off, rhs.off + rhs.size, s1.ptr, 0)
              ELSE s1
    IN IF Thrown(s1) THEN [st |-> s1, a |-> NoArray]
       ELSE [st |-> s2, a |-> [size |-> rhs.size, data |-> s1.ptr, capacity |-> rhs.size]]

\* ArrayVector::ArrayVector(InputIterator i, InputIterator end), the range
\* given as the sequence s of its values
ArrayVector_range(st, s) ==
    LET s1 == reserve_raw(st, Len(s))
        s2 == uninitialized_copy_in(s1, s, s1.ptr, 0)
    IN IF Thrown(s1) THEN [st |-> s1, a |-> NoArray]
       ELSE [st |-> s2, a |-> [size |-> Len(s), data |-> s1.ptr, capacity |-> Len(s)]]

\* ArrayVector::~ArrayVector, mutated: an array without elements keeps its
\* buffer
ArrayVector_destroy_nonempty(st, a) ==
    IF a.size = 0 THEN st ELSE deallocate(st, a.data, a.size)

\* ArrayVector::~ArrayVector
ArrayVector_destroy(st, a) == deallocate(st, a.data, a.size)

\* ArrayVector::reserve(size_type), mutated: capacity_ is not updated
reserve_stalecap(st, a, new_capacity) ==
    IF new_capacity <= a.capacity THEN [st |-> st, a |-> a]
    ELSE LET s1 == reserve_raw(st, new_capacity)
             s2 == IF a.size > 0
                   THEN uninitialized_copy(s1, a.data, 0, a.size, s1.ptr, 0)
                   ELSE s1
             s3 == deallocate(s2, a.data, a.size)
         IN IF Thrown(s1) THEN [st |-> s1, a |-> a]
            ELSE [st |-> s3, a |-> [a EXCEPT !.data = s1.ptr]]

\* ArrayVector::reserve(size_type), mutated: the elements are not carried over
reserve_nocopy(st, a, new_capacity) ==
    IF new_capacity <= a.capacity THEN [st |-> st, a |-> a]
    ELSE LET s1 == reserve_raw(st, new_capacity)
             s3 == deallocate(s1, a.data, a.size)
         IN IF Thrown(s1) THEN [st |-> s1, a |-> a]
            ELSE [st |-> s3, a |-> [a EXCEPT !.data = s1.ptr, !.capacity = new_capacity]]

\* ArrayVector::reserve(size_type), mutated: the old buffer is released
\* before the new one is allocated
reserve_releasefirst(st, a, new_capacity) ==
    IF new_capacity <= a.capacity THEN [st |-> st, a |-> a]
    ELSE LET s1 == reserve_raw(deallocate(st, a.data, a.size), new_capacity)
         IN [st |-> s1, a |-> [a EXCEPT !.data = s1.ptr, !.capacity = new_capacity]]

\* ArrayVector::reserve(size_type)
reserve(st, a, new_capacity) ==
    IF new_capacity <= a.capacity THEN [st |-> st, a |-> a]
    ELSE LET s1 == reserve_raw(st, new_capacity)
             new_data == s1.ptr
             s2 == IF a.size > 0
                   THEN uninitialized_copy(s1, a.data, 0, a.size, new_data, 0)
                   ELSE s1
             s3 == deallocate(s2, a.data, a.size)
         IN IF Thrown(s1) THEN [st |-> s1, a |-> a]
            ELSE [st |-> s3, a |-> [a EXCEPT !.data = new_data, !.capacity = new_capacity]]

\* ArrayVector::reserve(), mutated: doubles whether or not the array is full
reserve0_always(st, a) ==
    IF a.capacity = 0 THEN reserve(st, a, minimumCapacity)
    ELSE reserve(st, a, 2 * a.capacity)

\* ArrayVector::reserve(), mutated: a full array grows by one slot
reserve0_plus1(st, a) ==
    IF a.capacity = 0 THEN reserve(st, a, minimumCapacity)
    ELSE IF a.size = a.capacity THEN reserve(st, a, a.capacity + 1)
    ELSE [st |-> st, a |-> a]

\* ArrayVector::reserve()
reserve0(st, a) ==
    IF a.capacity = 0 THEN reserve(st, a, minimumCapacity)
    ELSE IF a.size = a.capacity THEN reserve(st, a, (2 * a.capacity) % SizeMod)
    ELSE [st |-> st, a |-> a]

\* ArrayVector::pop_back, mutated: the length is not decremented
pop_back_keep(st, a) ==
    [st |-> destroy(st, a.data, (a.size - 1) % SizeMod), a |-> a]

\* ArrayVector::pop_back
pop_back(st, a) ==
    LET size == (a.size - 1) % SizeMod
    IN [st |-> destroy(st, a.data, size), a |-> [a EXCEPT !.size = size]]

\* ArrayVector::push_back after reserve(): alloc_.construct(data_ + size_, t)
push_back_construct(r, t, g) ==
    IF Thrown(r.st) THEN r
    ELSE [st |-> construct_from(r.st, r.a.data, r.a.size, t, g),
          a |-> [r.a EXCEPT !.size = (@ + 1) % SizeMod]]

\* ArrayVector::push_back; t is a reference, read after reserve()
push_back(st, a, t, g) == push_back_construct(reserve0(st, a), t, g)

\* ArrayVector::clear
clear(st, a) ==
    [st |-> destroy_n(st, a.data, 0, a.size), a |-> [a EXCEPT !.size = 0]]

\* a call's result together with the iterator data + ret it returns
WithRet(r, ret) == [st |-> r.st, a |-> r.a, ret |-> ret]

\* ArrayVector::insert after push_back(back()): std::copy_backward(p,
\* end() - 2, end() - 1); *p = v
insert_shift(r, pos, v, g) ==
    IF Thrown(r.st) THEN WithRet(r, pos)
    ELSE
    WithRet([st |-> assign_from(std_copy_backward(r.st, r.a.data, pos, r.a.size - 2,
                                                  r.a.data, r.a.size - 1),
                                r.a.data, pos, v, g),
             a |-> r.a], pos)

\* ArrayVector::insert(iterator p, value_type const & v), p = begin() + pos;
\* the returned iterator is data + ret
insert(st, a, pos, v, g) ==
    IF pos = a.size
    THEN WithRet(push_back(st, a, v, g), pos)
    ELSE insert_shift(push_back(st, a, ElemRef(a.data, a.size - 1), g), pos, v, g)

\* ArrayVector::insert(iterator p, size_type n, value_type const & v),
\* mutated: the second branch shifts the tail without the gap diff
insert_n_noshift(st, a, pos, n, v, g) ==
    LET new_size == (a.size + n) % SizeMod
    IN  IF new_size >= a.capacity
        THEN LET s1 == reserve_raw(st, new_size)
                 new_data == s1.ptr
                 s2 == uninitialized_copy(s1, a.data, 0, pos, new_data, 0)
                 s3 == uninitialized_fill(s2, new_data, pos, pos + n, v, g)
                 s4 == uninitialized_copy(s3, a.data, pos, a.size, new_data, pos + n)
                 s5 == deallocate(s4, a.data, a.size)
             IN IF Thrown(s1) THEN [st |-> s1, ret |-> pos, a |-> a]
                ELSE [st |-> s5, ret |-> pos,
                      a |-> [size |-> new_size, data |-> new_data, capacity |-> new_size]]
        ELSE IF pos + n >= a.size
        THEN LET diff == (pos + n - a.size) % SizeMod
                 s1 == uninitialized_copy(st, a.data, pos, a.size, a.data, a.size)
                 s2 == uninitialized_fill(s1, a.data, a.size, a.size + diff, v, g)
                 s3 == std_fill(s2, a.data, pos, a.size, v, g)
             IN [st |-> s3, ret |-> pos, a |-> [a EXCEPT !.size = new_size]]
        ELSE LET diff == a.size - (pos + n)
                 s1 == uninitialized_copy(st, a.data, a.size - n, a.size, a.data, a.size)
                 s2 == std_copy_backward(s1, a.data, pos, pos + diff, a.data, a.size)
                 s3 == std_fill(s2, a.data, pos, pos + n, v, g)
             IN [st |-> s3, ret |-> pos, a |-> [a EXCEPT !.size = new_size]]

\* ArrayVector::insert(iterator p, size_type n, value_type const & v),
\* p = begin() + pos; the returned iterator is data + ret
insert_n(st, a, pos, n, v, g) ==
    LET new_size == (a.size + n) % SizeMod
    IN  IF new_size >= a.capacity
        THEN LET s1 == reserve_raw(st, new_size)
                 new_data == s1.ptr
                 s2 == uninitialized_copy(s1, a.data, 0, pos, new_data, 0)
                 s3 == uninitialized_fill(s2, new_data, pos, pos + n, v, g)
                 s4 == uninitialized_copy(s3, a.data, pos, a.size, new_data, pos + n)
                 s5 == deallocate(s4, a.data, a.size)
             IN IF Thrown(s1) THEN [st |-> s1, ret |-> pos, a |-> a]
                ELSE [st |-> s5, ret |-> pos,
                      a |-> [size |-> new_size, data |-> new_data, capacity |-> new_size]]
        ELSE IF pos + n >= a.size
        THEN LET diff == (pos + n - a.size) % SizeMod
                 s1 == uninitialized_copy(st, a.data, pos, a.size, a.data, a.size + diff)
                 s2 == uninitialized_fill(s1, a.data, a.size, a.size + diff, v, g)
                 s3 == std_fill(s2, a.data, pos, a.size, v, g)
             IN [st |-> s3, ret |-> pos, a |-> [a EXCEPT !.size = new_size]]
        ELSE LET diff == a.size - (pos + n)
                 s1 == uninitialized_copy(st, a.data, a.size - n, a.size, a.data, a.size)
                 s2 == std_copy_backward(s1, a.data, pos, pos + diff, a.data, a.size)
                 s3 == std_fill(s2, a.data, pos, pos + n, v, g)
             IN [st |-> s3, ret |-> pos, a |-> [a EXCEPT !.size = new_size]]

\* ArrayVector::insert(iterator p, InputIterator i, InputIterator iend),
\* the range [i, iend) given as the sequence s of its values
insert_range(st, a, pos, s) ==
    LET n == Len(s)
        new_size == (a.size + n) % SizeMod
    IN  IF new_size >= a.capacity
        THEN LET s1 == reserve_raw(st, new_size)
                 new_data == s1.ptr
                 s2 == uninitialized_copy(s1, a.data, 0, pos, new_data, 0)
                 s3 == uninitialized_copy_in(s2, s, new_data, pos)
                 s4 == uninitialized_copy(s3, a.data, pos, a.size, new_data, pos + n)
                 s5 == deallocate(s4, a.data, a.size)
             IN IF Thrown(s1) THEN [st |-> s1, ret |-> pos, a |-> a]
                ELSE [st |-> s5, ret |-> pos,
                      a |-> [size |-> new_size, data |-> new_data, capacity |-> new_size]]
        ELSE IF pos + n >= a.size
        THEN LET diff == (pos + n - a.size) % SizeMod
                 s1 == uninitialized_copy(st, a.data, pos, a.size, a.data, a.size + diff)
                 s2 == uninitialized_copy_in(s1, SubSeq(s, n - diff + 1, n), a.data, a.size)
                 s3 == std_copy_in(s2, SubSeq(s, 1, n - diff), a.data, pos)
             IN [st |-> s3, ret |-> pos, a |-> [a EXCEPT !.size = new_size]]
        ELSE LET diff == a.size - (pos + n)
                 s1 == uninitialized_copy(st, a.data, a.size - n, a.size, a.data, a.size)
                 s2 == std_copy_backward(s1, a.data, pos, pos + diff, a.data, a.size)
                 s3 == std_copy_in(s2, s, a.data, pos)
             IN [st |-> s3, ret |-> pos, a |-> [a EXCEPT !.size = new_size]]

\* ArrayVector::erase(iterator p), p = begin() + pos
erase(st, a, pos) ==
    LET s1 == std_copy(st, a.data, pos + 1, a.size, a.data, pos)
        r == pop_back(s1, a)
    IN [st |-> r.st, a |-> r.a, ret |-> pos]

\* ArrayVector::erase(iterator p, iterator q), mutated: the trailing elements
\* are not destroyed
erase_range_nodestroy(st, a, pos, qos) ==
    LET s1 == std_copy(st, a.data, qos, a.size, a.data, pos)
        eraseCount == qos - pos
    IN [st |-> s1, a |-> [a EXCEPT !.size = @ - eraseCount], ret |-> pos]

\* ArrayVector::erase(iterator p, iterator q), mutated: the tail is not
\* shifted over the gap
erase_range_noshift(st, a, pos, qos) ==
    LET eraseCount == qos - pos
        s2 == destroy_n(st, a.data, a.size - eraseCount, eraseCount)
    IN [st |-> s2, a |-> [a EXCEPT !.size = @ - eraseCount], ret |-> pos]

\* ArrayVector::erase(iterator p, iterator q), p = begin() + pos, q = begin() + qos
erase_range(st, a, pos, qos) ==
    LET s1 == std_copy(st, a.data, qos, a.size, a.data, pos)
        eraseCount == qos - pos
        s2 == destroy_n(s1, a.data, a.size - eraseCount, eraseCount)
    IN [st |-> s2, a |-> [a EXCEPT !.size = @ - eraseCount], ret |-> pos]

\* ArrayVector::resize(size_type new_size, value_type const & initial)
resize(st, a, new_size, initial, g) ==
    IF new_size < a.size
    THEN LET r == erase_range(st, a, new_size, a.size) IN [st |-> r.st, a |-> r.a]
    ELSE IF a.size < new_size
    THEN LET r == insert_n(st, a, a.size, new_size - a.size, initial, g)
         IN [st |-> r.st, a |-> r.a]
    ELSE [st |-> st, a |-> a]

\* ArrayVector::swap: this and rhs exchange size_, capacity_ and data_
swap(this, rhs) == [this |-> rhs, rhs |-> this]

\* ArrayVector::operator=(this_type const & rhs), mutated: always copy and
\* swap
ArrayVector_assign_swap(st, this, rhs) ==
    LET t == ArrayVector_copy(st, rhs)
        sw == swap(this, t.a)
    IN IF Thrown(t.st) THEN [st |-> t.st, a |-> this]
       ELSE [st |-> ArrayVector_destroy(t.st, sw.rhs), a |-> sw.this]

\* ArrayVector::operator=(this_type const & rhs), mutated: the old buffer is
\* released before the copy is built
ArrayVector_assign_release(st, this, rhs) ==
    IF this.size = rhs.size
    THEN [st |-> copyImpl(st, AsView(this), AsView(rhs)), a |-> this]
    ELSE LET t == ArrayVector_copy(deallocate(st, this.data, this.size), rhs)
         IN [st |-> t.st, a |-> t.a]

\* ArrayVector::operator=(this_type const & rhs), this != &rhs
ArrayVector_assign(st, this, rhs) ==
    IF this.size = rhs.size
    THEN [st |-> copyImpl(st, AsView(this), AsView(rhs)), a |-> this]
    ELSE LET t == ArrayVector_copy(st, rhs)
             sw == swap(this, t.a)
         IN IF Thrown(t.st) THEN [st |-> t.st, a |-> this]
            ELSE [st |-> ArrayVector_destroy(t.st, sw.rhs), a |-> sw.this]

\* the swap loop, mutated: rhs.data_[k] is not given the old data_[k]
RECURSIVE swap_loop_oneway(_, _, _, _)
swap_loop_oneway(st, this, rhs, k) ==
    IF k >= this.size THEN st
    ELSE LET y == load(st, rhs.data, rhs.off + k)
             s1 == assign(st, this.data, this.off + k, y)
         IN swap_loop_oneway(s1, this, rhs, k + 1)

\* std::swap(data_[k], rhs.data_[k]) for k = k .. size-1
RECURSIVE swap_loop(_, _, _, _)
swap_loop(st, this, rhs, k) ==
    IF k >= this.size THEN st
    ELSE LET x == load(st, this.data, this.off + k)
             y == load(st, rhs.data, rhs.off + k)
             s1 == assign(st, this.data, this.off + k, y)
             s2 == assign(s1, rhs.data, rhs.off + k, x)
         IN swap_loop(s2, this, rhs, k + 1)

\* ArrayVectorView::swapDataImpl
swapDataImpl(st, this, rhs) ==
    IF this.size # rhs.size THEN throw(st)
    ELSE IF \/ PtrLE(this.data, this.off + this.size, rhs.data, rhs.off)
            \/ PtrLE(rhs.data, rhs.off + this.size, this.data, this.off)
    THEN swap_loop(st, this, rhs, 0)
    ELSE LET t == ArrayVector_view(st, this)
             s1 == copyImpl(t.st, this, rhs)
             s2 == copyImpl(s1, rhs, this)
         IN IF Thrown(t.st) THEN t.st ELSE ArrayVector_destroy(s2, t.a)

\* ArrayVectorView::swapData
swapData(st, this, rhs) ==
    IF ~PtrEq(this.data, this.off, rhs.data, rhs.off)
    THEN swapDataImpl(st, this, rhs)
    ELSE st

\* ------------------------------------------------------------------------
\* The state machine.  heap: the allocator's blocks; arr: the array under
\* test; view: the two views; hist: what the last operation was called
\* with, the state it started from and what it returned.  The right-hand
\* side of an assignment or swap is a second array that lives only for the
\* duration of the call.
\* ------------------------------------------------------------------------
Hist0 ==
    [op |-> "init", pos |-> 0, n |-> 0, vals |-> <<>>,
     preSeq |-> <<>>, preHeap |-> <<>>, ret |-> 0, undo |-> FALSE,
     bad |-> FALSE, dangling |-> FALSE, err |-> "none", allocs |-> 0, frees |-> 0,
     run |-> 0, reallocs |-> 0, this |-> NullView, missized |-> FALSE]

\* the record of one call on the array that ended in memory state st
Called(op, pos, n, vals, st, ret) ==
    [Hist0 EXCEPT !.op = op, !.pos = pos, !.n = n, !.vals = vals,
                  !.ret = ret,
                  !.bad = st.bad, !.dangling = st.dangling, !.err = st.err,
                  !.allocs = st.allocs, !.frees = st.frees,
                  !.missized = st.missized]

EmptyHeap == [b \in Blocks |-> FreeBlock]

\* what a.subarray(b, e) returns for every b and e (NullView for the calls
\* that fail)
SubViews(a) ==
    {subarray(MemState(EmptyHeap), AsView(a), b, e).ret :
        b \in 0..a.size, e \in 0..a.size}

\* an array as one of the constructors leaves it
Constructions(st, V, maxLen) ==
    {ArrayVector_default(st)}
    \cup {ArrayVector_fill(st, n, v) : n \in 0..maxLen, v \in V}
    \cup {ArrayVector_range(st, s) : s \in BSeq(V, maxLen)}

Init ==
    \E c \in Constructions(MemState(EmptyHeap), Val, MaxInit) :
        /\ heap = c.st.heap
        /\ arr = c.a
        /\ view = [w \in Views |-> NullView]
        /\ hist = Hist0

\* the result r of a method called on the array becomes the new state
Commit(r, h) ==
    /\ heap' = r.st.heap
    /\ arr' = r.a
    /\ hist' = h
    /\ UNCHANGED view

\* hist is the record of the call that has just returned.  The caller drops
\* it (Return) before it makes the next call; only pop_back directly after
\* push_back and erase directly after insert are made with the record of the
\* first call still at hand.
\* Nothing more is called on an array that has been destroyed or whose
\* length has left its buffer.
Ready == hist = Hist0

Return ==
    /\ ~Ready
    /\ hist.op # "destroy"
    /\ arr.size <= arr.capacity
    /\ hist' = Hist0
    /\ UNCHANGED <<heap, arr, view>>

\* what the memory provider does during a call: it fails at the first
\* allocation, or grants every one
Fuel == {0, NBlocks}

\* capacity push_back needs
GrownCapacity(a) ==
    IF a.capacity = 0 THEN minimumCapacity
    ELSE IF a.size = a.capacity THEN 2 * a.capacity
    ELSE a.capacity

PushBack ==
    \E v \in Val, f \in Fuel :
      /\ Ready
      /\ GrownCapacity(arr) <= MaxCap
      /\ LET r == push_back(Provider(MemState(heap), f), arr, ExtRef(v), v)
         IN Commit(r, [Called("push_back", arr.size, 1, <<v>>, r.st, 0)
                           EXCEPT !.preSeq = Contents(heap, arr)])

\* precondition of pop_back: the array is not empty
PopBack ==
    /\ Ready \/ hist.op = "push_back"
    /\ arr.size > 0
    /\ LET r == pop_back(MemState(heap), arr)
           second == hist.op = "push_back" /\ hist.err = "none"
       IN Commit(r, [Called("pop_back", 0, 0, <<>>, r.st, 0)
                         EXCEPT !.undo = second,
                                !.preSeq = IF second THEN hist.preSeq ELSE <<>>])

\* insert(begin() + pos, v); g is what a read of a released element yields
Insert ==
    \E pos \in 0..arr.size, v \in Val, g \in Val, f \in Fuel :
      /\ Ready
      /\ GrownCapacity(arr) <= MaxCap
      /\ LET r == insert(Provider(MemState(heap), f), arr, pos, ExtRef(v), g)
         IN Commit(r, [Called("insert", pos, 1, <<v>>, r.st, r.ret)
                           EXCEPT !.preSeq = Contents(heap, arr)])

InsertN ==
    \E pos \in 0..arr.size, n \in 0..MaxCap, v \in Val, f \in Fuel :
      /\ Ready
      /\ arr.size + n <= MaxCap
      /\ LET r == insert_n(Provider(MemState(heap), f), arr, pos, n, ExtRef(v), v)
         IN Commit(r, Called("insert_n", pos, n, [k \in 1..n |-> v], r.st, r.ret))

InsertRange ==
    \E pos \in 0..arr.size, s \in BSeq(Val, MaxCap - arr.size), f \in Fuel :
      LET r == insert_range(Provider(MemState(heap), f), arr, pos, s)
      IN Ready /\ Commit(r, Called("insert_range", pos, Len(s), s, r.st, r.ret))

Erase ==
    \E pos \in 0..(arr.size - 1) :
      LET r == erase(MemState(heap), arr, pos)
          second == hist.op = "insert" /\ hist.err = "none" /\ hist.pos = pos
      IN (Ready \/ hist.op = "insert") /\ Commit(r, [Called("erase", pos, 1, <<>>, r.st, r.ret)
                        EXCEPT !.undo = second,
                               !.preSeq = IF second THEN hist.preSeq ELSE <<>>])

EraseRange ==
    \E pos \in 0..arr.size :
      \E qos \in pos..arr.size :
        LET r == erase_range(MemState(heap), arr, pos, qos)
        IN Ready /\ Commit(r, Called("erase_range", pos, qos - pos, <<>>, r.st, r.ret))

Clear ==
    LET r == clear(MemState(heap), arr)
    IN Ready /\ Commit(r, Called("clear", 0, 0, <<>>, r.st, 0))

Reserve ==
    \E n \in 0..MaxCap, f \in Fuel :
      LET r == reserve(Provider(MemState(heap), f), arr, n)
      IN Ready /\ Commit(r, Called("reserve", 0, n, <<>>, r.st, 0))

Resize ==
    \E n \in 0..MaxCap, v \in Val, f \in Fuel :
      LET r == resize(Provider(MemState(heap), f), arr, n, ExtRef(v), v)
      IN Ready /\ Commit(r, Called("resize", 0, n, [k \in 1..(n - arr.size) |-> v], r.st, 0))

\* the other array of an assignment or swap: ArrayVector rhs(s.begin(),
\* s.end()); rhs.reserve(rhs.size() + spare);
Operand(st, s, spare) ==
    LET o == ArrayVector_range(st, s) IN reserve(o.st, o.a, Len(s) + spare)

\* { ArrayVector rhs(...); arr = rhs; }
Assign ==
    \E s \in BSeq(Val, MaxInit), spare \in 0..1, f \in Fuel :
      LET o == Operand(MemState(heap), s, spare)
          r == ArrayVector_assign(Provider(o.st, f), arr, o.a)
          e == ArrayVector_destroy(r.st, o.a)
      IN Ready /\ Commit([st |-> e, a |-> r.a],
                [Called("assign", 0, spare, s, e, 0)
                     EXCEPT !.preSeq = Contents(heap, arr)])

\* { ArrayVector rhs(...); arr.swap(rhs); }
Swap ==
    \E s \in BSeq(Val, MaxInit), spare \in 0..1 :
      LET o == Operand(MemState(heap), s, spare)
          r == swap(arr, o.a)
          e == ArrayVector_destroy(o.st, r.rhs)
      IN Ready /\ Commit([st |-> e, a |-> r.this],
                Called("swap", 0, spare, s, e, 0))

\* the constructors that take another sequence
FromSequence == {"copy_ctor", "view_ctor", "range_ctor"}

\* { ArrayVector b(arr); }, { ArrayVector b(view of arr); } and
\* { ArrayVector b(arr.begin(), arr.end()); }: hist.pos, hist.n and hist.vals
\* are the length, capacity and elements of b
Construct ==
    \E kind \in FromSequence, f \in Fuel :
      LET st == Provider(MemState(heap), f)
          c == CASE kind = "copy_ctor" -> ArrayVector_copy(st, arr)
                 [] kind = "view_ctor" -> ArrayVector_view(st, AsView(arr))
                 [] kind = "range_ctor" -> ArrayVector_range(st, Contents(heap, arr))
          e == IF Thrown(c.st) THEN c.st ELSE ArrayVector_destroy(c.st, c.a)
      IN /\ Ready
         /\ heap' = e.heap
         /\ hist' = [Called(kind, c.a.size, c.a.capacity, Contents(c.st.heap, c.a), e, 0)
                         EXCEPT !.preSeq = Contents(heap, arr)]
         /\ UNCHANGED <<arr, view>>

\* arr.subarray(..).swapData(arr.subarray(..)): two views of the array's own
\* elements, identical, disjoint or overlapping
SwapDataOwn ==
    \E v \in SubViews(arr), w \in SubViews(arr), f \in Fuel :
      LET st == swapData(Provider(MemState(heap), f), v, w)
      IN /\ Ready
         /\ heap' = st.heap
         /\ hist' = Called("swapData", v.off, w.off, <<>>, st, 0)
         /\ UNCHANGED <<arr, view>>

\* the array goes out of scope; nothing is called on it afterwards
Destroy ==
    LET st == ArrayVector_destroy(MemState(heap), arr)
    IN /\ Ready
       /\ heap' = st.heap
       /\ arr' = NoArray
       /\ hist' = [Called("destroy", arr.size, arr.capacity, <<>>, st, 0)
                       EXCEPT !.preSeq = Contents(heap, arr)]
       /\ UNCHANGED view

Next ==
    \/ PushBack
    \/ PopBack
    \/ Insert
    \/ InsertN
    \/ InsertRange
    \/ Erase
    \/ EraseRange
    \/ Clear
    \/ Reserve
    \/ Resize
    \/ Assign
    \/ Swap
    \/ Construct
    \/ SwapDataOwn
    \/ Destroy
    \/ Return

Spec == Init /\ [][Next]_vars

\* ------------------------------------------------------------------------
\* A run of push_back calls on an array that starts with capacity 0.
\* hist.run counts the calls of the run that returned, hist.reallocs the
\* blocks they allocated.
\* ------------------------------------------------------------------------
InitGrow ==
    \E c \in {ArrayVector_range(MemState(EmptyHeap), <<>>)} \cup
              {ArrayVector_fill(MemState(EmptyHeap), 0, v) : v \in Val} :
        /\ heap = c.st.heap
        /\ arr = c.a
        /\ view = [w \in Views |-> NullView]
        /\ hist = Hist0

GrowPushBack ==
    \E v \in Val, f \in Fuel :
      /\ hist.run < MaxPush
      /\ LET r == push_back(Provider(MemState(heap), f), arr, ExtRef(v), v)
         IN Commit(r, [Called("push_back", arr.size, 1, <<v>>, r.st, 0)
                           EXCEPT !.run = hist.run + (IF Thrown(r.st) THEN 0 ELSE 1),
                                  !.reallocs = hist.reallocs + r.st.allocs])

NextGrow == GrowPushBack

SpecGrow == InitGrow /\ [][NextGrow]_vars

\* ------------------------------------------------------------------------
\* Subarrays.  The view v is taken with subarray(begin, end) from the array
\* or from v itself; elements are then written through v and through the
\* array.  hist.this is the view subarray was called on, hist.pos and hist.n
\* are begin and end.  A write made directly after a subarray of the array
\* keeps begin and end, has the index in hist.ret and is marked hist.undo.
\* ------------------------------------------------------------------------
InitSub ==
    \E s \in BSeq(Val, MaxView) :
      LET c == ArrayVector_range(MemState(EmptyHeap), s)
      IN /\ heap = c.st.heap
         /\ arr = c.a
         /\ view = [w \in Views |-> NullView]
         /\ hist = Hist0

\* v = src.subarray(b, e); no view is assigned when subarray throws
SubSubarray ==
    \E src \in {AsView(arr), view["v"]}, b \in 0..(MaxView + 1), e \in 0..(MaxView + 1) :
      LET r == subarray(MemState(heap), src, b, e)
      IN /\ Ready
         /\ heap' = r.st.heap
         /\ view' = IF Thrown(r.st) THEN view ELSE [view EXCEPT !["v"] = r.ret]
         /\ hist' = [Called("subarray", b, e, <<>>, r.st, 0) EXCEPT !.this = src]
         /\ UNCHANGED arr

\* the record of the write w[i] = x
Written(op, w, i, x, st) ==
    LET second == hist.op = "subarray" /\ hist.err = "none" /\ hist.this = AsView(arr)
    IN [Called(op, IF second THEN hist.pos ELSE 0, IF second THEN hist.n ELSE 0,
               <<x>>, st, i)
           EXCEPT !.undo = second, !.this = w, !.preSeq = Contents(heap, arr)]

\* v[i] = x
SubViewWrite ==
    \E i \in 0..(view["v"].size - 1), x \in Val :
      LET p == operator_index(view["v"], i)
          st == assign(MemState(heap), p.blk, p.idx, x)
      IN /\ Ready \/ hist.op = "subarray"
         /\ heap' = st.heap
         /\ hist' = Written("view_write", view["v"], i, x, st)
         /\ UNCHANGED <<arr, view>>

\* arr[i] = x
SubArrayWrite ==
    \E i \in 0..(arr.size - 1), x \in Val :
      LET p == operator_index(AsView(arr), i)
          st == assign(MemState(heap), p.blk, p.idx, x)
      IN /\ Ready \/ hist.op = "subarray"
         /\ heap' = st.heap
         /\ hist' = Written("array_write", AsView(arr), i, x, st)
         /\ UNCHANGED <<arr, view>>

NextSub ==
    \/ SubSubarray
    \/ SubViewWrite
    \/ SubArrayWrite
    \/ Return

SpecSub == InitSub /\ [][NextSub]_vars

\* ------------------------------------------------------------------------
\* pop_back without its precondition: the caller does not look at the length
\* before it calls.  Once the length has left [0, capacity] nothing more is
\* called on the array.
\* ------------------------------------------------------------------------
PopBackUnchecked ==
    LET r == pop_back(MemState(heap), arr)
    IN /\ Ready
       /\ Commit(r, [Called("pop_back", 0, 0, <<>>, r.st, 0)
                        EXCEPT !.preSeq = Contents(heap, arr)])

NextPopEmpty ==
    \/ PushBack
    \/ PopBackUnchecked
    \/ Return

SpecPopEmpty == Init /\ [][NextPopEmpty]_vars

\* ------------------------------------------------------------------------
\* Inserts whose value argument is a reference to an element of the array
\* itself: a.insert(a.begin() + pos, a[i]) and
\* a.insert(a.begin() + pos, n, a[i]).  hist.vals holds the value a[i] had
\* when the call was made, once per inserted slot.
\* ------------------------------------------------------------------------
InsertAlias ==
    \E pos \in 0..arr.size, i \in 0..(arr.size - 1), g \in Val, f \in Fuel :
      /\ Ready
      /\ GrownCapacity(arr) <= MaxCap
      /\ LET r == insert(Provider(MemState(heap), f), arr, pos,
                         operator_index(AsView(arr), i), g)
         IN Commit(r, [Called("insert", pos, 1, <<Contents(heap, arr)[i + 1]>>, r.st, r.ret)
                           EXCEPT !.preSeq = Contents(heap, arr)])

InsertNAlias ==
    \E pos \in 0..arr.size, i \in 0..(arr.size - 1), n \in 0..MaxCap, g \in Val, f \in Fuel :
      /\ Ready
      /\ arr.size + n <= MaxCap
      /\ LET r == insert_n(Provider(MemState(heap), f), arr, pos, n,
                           operator_index(AsView(arr), i), g)
         IN Commit(r, [Called("insert_n", pos, n,
                              [k \in 1..n |-> Contents(heap, arr)[i + 1]], r.st, r.ret)
                           EXCEPT !.preSeq = Contents(heap, arr)])

NextAlias ==
    \/ InsertAlias
    \/ InsertNAlias
    \/ PushBack
    \/ Reserve
    \/ Return

SpecAlias == Init /\ [][NextAlias]_vars

\* ------------------------------------------------------------------------
\* Arrays at half the range of size_type, where 2 * capacity_ and
\* size() + n no longer fit: ArrayVector a(n, v) with n close to WrapLen,
\* then push_back, pop_back and insert(p, n, v).  The length is kept within
\* MaxWrap of WrapLen.
\* ------------------------------------------------------------------------
WrapLen == SizeMod \div 2

InitWrap ==
    \E n \in (WrapLen - MaxWrap)..WrapLen, v \in Val :
      LET c == ArrayVector_fill(MemState(EmptyHeap), n, v)
      IN /\ heap = c.st.heap
         /\ arr = c.a
         /\ view = [w \in Views |-> NullView]
         /\ hist = Hist0

WrapPushBack ==
    \E v \in Val, f \in Fuel :
      /\ Ready
      /\ arr.size \in (WrapLen - MaxWrap)..WrapLen
      /\ LET r == push_back(Provider(MemState(heap), f), arr, ExtRef(v), v)
         IN Commit(r, Called("push_back", arr.size, 1, <<v>>, r.st, 0))

WrapPopBack ==
    /\ Ready
    /\ arr.size > WrapLen - MaxWrap
    /\ LET r == pop_back(MemState(heap), arr)
       IN Commit(r, Called("pop_back", 0, 0, <<>>, r.st, 0))

\* insert(begin() + pos, n, v) with n so large that size() + n reaches the
\* end of the range of size_type
WrapInsertN ==
    \E pos \in {0, arr.size}, n \in {SizeMod - arr.size, SizeMod - 1},
       v \in Val, f \in Fuel :
      /\ Ready
      /\ arr.size \in (WrapLen - MaxWrap)..WrapLen
      /\ LET r == insert_n(Provider(MemState(heap), f), arr, pos, n, ExtRef(v), v)
         IN Commit(r, Called("insert_n", pos, n, <<v>>, r.st, r.ret))

NextWrap ==
    \/ WrapPushBack
    \/ WrapPopBack
    \/ WrapInsertN
    \/ Return

SpecWrap == InitWrap /\ [][NextWrap]_vars

\* ------------------------------------------------------------------------
\* The views.  An array holding 1, 2, .. k is constructed and two views v and
\* w are taken from it with subarray; v.copy(w) and v.swapData(w) then act
\* on the array's memory.  The elements start pairwise distinct, so that
\* every slot shows where its value came from.
\* ------------------------------------------------------------------------
Iota(k) == [i \in 1..k |-> i]

InitView ==
    \E k \in 0..MaxView :
      LET c == ArrayVector_range(MemState(EmptyHeap), Iota(k))
      IN \E sv \in SubViews(c.a) \cup {NullView}, sw \in SubViews(c.a) :
           /\ heap = c.st.heap
           /\ arr = c.a
           /\ view = [x \in Views |-> IF x = "v" THEN sv ELSE sw]
           /\ hist = Hist0

\* the record of one call on the views that ended in memory state st.  A
\* swapData that directly follows a first swapData is recorded as its undo
\* and keeps the heap the first one started from.
ViewCalled(op, st) ==
    LET second == op = "swapData" /\ hist.op = "swapData" /\ ~hist.undo
    IN
    [Hist0 EXCEPT !.op = op,
                  !.undo = second,
                  !.preHeap = IF second THEN hist.preHeap ELSE heap,
                  !.bad = st.bad, !.err = st.err,
                  !.allocs = st.allocs, !.frees = st.frees]

\* v.copy(w)
ViewCopy ==
    LET st == copy(MemState(heap), view["v"], view["w"])
    IN /\ heap' = st.heap
       /\ hist' = ViewCalled("copy", st)
       /\ UNCHANGED <<arr, view>>

\* v.swapData(w)
ViewSwapData ==
    LET st == swapData(MemState(heap), view["v"], view["w"])
    IN /\ heap' = st.heap
       /\ hist' = ViewCalled("swapData", st)
       /\ UNCHANGED <<arr, view>>

\* v = w
ViewAssign ==
    LET r == ArrayVectorView_assign(MemState(heap), view["v"], view["w"])
    IN /\ heap' = r.st.heap
       /\ view' = [view EXCEPT !["v"] = r.this]
       /\ hist' = [ViewCalled("assign", r.st) EXCEPT !.this = view["v"]]
       /\ UNCHANGED arr

NextView ==
    \/ ViewCopy
    \/ ViewSwapData
    \/ ViewAssign

SpecView == InitView /\ [][NextView]_vars

\* ------------------------------------------------------------------------
\* Properties
\* ------------------------------------------------------------------------
Seq0 == Contents(heap, arr)
BulkInsert == {"insert_n", "insert_range"}

\* the slots a view addresses
Slots(w) == {<<w.data, w.off + k>> : k \in 0..(w.size - 1)}
SameStart(v, w) == v.data = w.data /\ v.off = w.off
Disjoint(v, w) == Slots(v) \cap Slots(w) = {}
PartialOverlap(v, w) == v.size = w.size /\ ~SameStart(v, w) /\ ~Disjoint(v, w)

\* memory m with the sequence s written at offset off
WriteAt(m, off, s) ==
    [i \in 1..Len(m) |-> IF i > off /\ i <= off + Len(s) THEN s[i - off] ELSE m[i]]

\* C1: after any sequence of array operations whose preconditions are met,
\* the array's length is at most its capacity.
C1_LengthWithinCapacity == arr.size <= arr.capacity

C1_Witness ==
    /\ hist.op \in BulkInsert
    /\ hist.allocs = 1
    /\ arr.size = arr.capacity
    /\ arr.size >= 2

C3_InsertEraseRestores ==
    (hist.op = "erase" /\ hist.undo) => Seq0 = hist.preSeq

\* C4: push_back(v) directly followed by pop_back() restores the original
\* length and element sequence.
C4_PushPopRestores ==
    (hist.op = "pop_back" /\ hist.undo) =>
        /\ arr.size = Len(hist.preSeq)
        /\ Seq0 = hist.preSeq

C4_Witness ==
    /\ hist.op = "pop_back"
    /\ hist.undo
    /\ arr.size >= 1
    /\ arr.capacity = 2 * arr.size

\* C8: reserve(n) never decreases capacity and leaves length and every
\* element unchanged; with n <= capacity it changes nothing at all, with
\* n > capacity the capacity becomes exactly n.
C8_Reserve ==
    [][(hist'.op = "reserve" /\ hist'.err = "none") =>
         /\ arr'.capacity >= arr.capacity
         /\ arr'.size = arr.size
         /\ Contents(heap', arr') = Contents(heap, arr)
         /\ hist'.n <= arr.capacity => (arr' = arr /\ heap' = heap)
         /\ hist'.n > arr.capacity => (arr'.capacity = hist'.n /\ arr'.data # arr.data)
      ]_vars

C8_Witness ==
    /\ hist.op = "reserve"
    /\ hist.allocs = 1
    /\ arr.capacity = hist.n
    /\ arr.size >= 2
    /\ arr.size < arr.capacity

\* C9: bulk insert of n values at position p into a sequence old of length L
\* yields old[0..p) ++ values ++ old[p..L), of length L + n, and returns
\* index p of the new array, in all three branches.
C9_BulkInsert ==
    [][(hist'.op \in BulkInsert /\ hist'.err = "none") =>
         LET old == Contents(heap, arr)
             p == hist'.pos
         IN /\ Len(hist'.vals) = hist'.n
            /\ arr'.size = arr.size + hist'.n
            /\ Contents(heap', arr') =
                 SubSeq(old, 1, p) \o hist'.vals \o SubSeq(old, p + 1, Len(old))
            /\ hist'.ret = p
      ]_vars

C9_Witness ==
    /\ hist.op \in BulkInsert
    /\ hist.allocs = 0
    /\ hist.pos + hist.n > arr.size - hist.n
    /\ hist.pos < arr.size - hist.n

\* C10: bulk insert allocates a new buffer only if length + n exceeds the
\* capacity; whenever length + n <= capacity the insertion is done in the
\* existing buffer, so the buffer and the capacity are unchanged.
C10_BulkInsertInPlace ==
    [][hist'.op \in BulkInsert =>
         /\ hist'.allocs > 0 => arr.size + hist'.n > arr.capacity
         /\ arr.size + hist'.n <= arr.capacity =>
              (arr'.data = arr.data /\ arr'.capacity = arr.capacity)
      ]_vars

\* C11: push_back(v) on an array of length L and capacity C appends v
\* (length L + 1, elements [0, L) unchanged, element L equal to v), and the
\* capacity becomes minimumCapacity if C = 0, 2 * C if L = C > 0, and stays C
\* if L < C.
C11_PushBackGrowth ==
    [][(hist'.op = "push_back" /\ hist'.err = "none") =>
         /\ arr'.size = arr.size + 1
         /\ Contents(heap', arr') = Contents(heap, arr) \o hist'.vals
         /\ Len(hist'.vals) = 1
         /\ arr.capacity = 0 => arr'.capacity = minimumCapacity
         /\ (arr.capacity > 0 /\ arr.size = arr.capacity) =>
              arr'.capacity = 2 * arr.capacity
         /\ arr.size < arr.capacity =>
              (arr'.capacity = arr.capacity /\ arr'.data = arr.data)
      ]_vars

C11_Witness ==
    /\ hist.op = "push_back"
    /\ hist.err = "none"
    /\ hist.allocs = 1
    /\ arr.size = 3
    /\ arr.capacity = 4
    /\ Seq0 = hist.preSeq \o hist.vals

\* C17: the assignment a = b makes a's length and element sequence equal to
\* b's; when the lengths already match it copies in place, so a's buffer and
\* capacity are unchanged.
C17_AssignCopies ==
    [][(hist'.op = "assign" /\ hist'.err = "none") =>
         /\ arr'.size = Len(hist'.vals)
         /\ Contents(heap', arr') = hist'.vals
         /\ arr.size = Len(hist'.vals) =>
              (arr'.data = arr.data /\ arr'.capacity = arr.capacity)
      ]_vars

C17_Witness ==
    /\ hist.op = "assign"
    /\ hist.err = "none"
    /\ Len(hist.preSeq) = arr.size
    /\ arr.size >= 2
    /\ arr.capacity > arr.size
    /\ Seq0 # hist.preSeq
    /\ Seq0 = hist.vals

\* C18: when an assignment between arrays of different lengths fails with
\* MemoryExhaustion while the temporary copy is built, the target keeps its
\* length, capacity, buffer and element values.
C18_AssignFailureKeepsTarget ==
    [][(hist'.op = "assign" /\ hist'.err = "MemoryExhaustion") =>
         /\ arr.size # Len(hist'.vals)
         /\ arr' = arr
         /\ heap' = heap
      ]_vars

C18_Witness ==
    /\ hist.op = "assign"
    /\ hist.err = "MemoryExhaustion"
    /\ arr.size >= 2
    /\ Len(hist.vals) >= 1
    /\ Len(hist.vals) # arr.size
    /\ Seq0 = hist.preSeq

\* C19: when the memory provider fails during reserve(n), push_back or a
\* reallocating bulk insert, the array keeps its length, capacity, buffer and
\* element values, and the old buffer has not been released.
C19_AllocationFailureKeepsArray ==
    [][(/\ hist'.op \in {"reserve", "push_back", "insert_n", "insert_range"}
        /\ hist'.err = "MemoryExhaustion") =>
         /\ arr' = arr
         /\ heap' = heap
         /\ hist'.frees = 0
         /\ hist'.allocs = 0
      ]_vars

C19_Witness ==
    /\ hist.op = "insert_n"
    /\ hist.err = "MemoryExhaustion"
    /\ hist.n >= 1
    /\ hist.pos = 1
    /\ arr.size >= 2
    /\ arr.data # Null
    /\ heap[arr.data].live

\* C20: an array constructed from another sequence (a copy of an array, from
\* a view, from a begin/end range) has the source's length as its length and
\* as its capacity and the source's elements in order, whatever the capacity
\* of the source array is.
C20_ConstructTight ==
    [][(hist'.op \in FromSequence /\ hist'.err = "none") =>
         /\ hist'.pos = arr.size
         /\ hist'.n = arr.size
         /\ hist'.vals = Contents(heap, arr)
      ]_vars

\* the sequence s without its elements b + 1 .. e
Without(s, b, e) == SubSeq(s, 1, b) \o SubSeq(s, e + 1, Len(s))

\* C21: erase(b, e) on an array of length L yields old[0..b) ++ old[e..L) of
\* length L - (e - b), keeps capacity and buffer, and returns index b;
\* erase(p) does what erase(p, p + 1) does.
C21_Erase ==
    [][/\ hist'.op = "erase_range" =>
            /\ Contents(heap', arr') =
                 Without(Contents(heap, arr), hist'.pos, hist'.pos + hist'.n)
            /\ arr'.size = arr.size - hist'.n
            /\ arr'.capacity = arr.capacity
            /\ arr'.data = arr.data
            /\ hist'.ret = hist'.pos
       /\ hist'.op = "erase" =>
            LET r == erase_range(MemState(heap), arr, hist'.pos, hist'.pos + 1)
            IN /\ Contents(heap', arr') =
                    Without(Contents(heap, arr), hist'.pos, hist'.pos + 1)
               /\ arr' = r.a
               /\ heap' = r.st.heap
               /\ hist'.ret = r.ret
      ]_vars

C21_Witness ==
    /\ hist.op = "erase_range"
    /\ hist.pos >= 1
    /\ hist.n >= 2
    /\ arr.size > hist.pos
    /\ arr.capacity = arr.size + hist.n

\* C27: every block an array gives back to the memory provider is given
\* back with the slot count it was allocated with.
C27_DeallocateSize == ~hist.missized

\* the blocks the allocator has handed out and not got back
Live(h) == {b \in Blocks : h[b].live}

\* the blocks that are the buffer of a live array
Owned(a) == {a.data} \ {Null}

\* C22: across every call on an array (calls that end in MemoryExhaustion,
\* assignments, swaps and swapData on overlapping views of the array
\* included) no block is released twice or while it is still the buffer of
\* the live array, every block allocated and not released is the buffer of
\* the live array, and once the array is destroyed no block is left.
C22_BlocksReleasedOnce ==
    [][/\ Live(heap) = Owned(arr)
       /\ Live(heap') = Owned(arr')
       /\ ~hist'.bad
       /\ Cardinality(Live(heap')) = Cardinality(Live(heap)) + hist'.allocs - hist'.frees
       /\ hist'.op = "destroy" => Live(heap') = {} /\ arr'.data = Null
      ]_vars

\* an array that holds elements is destroyed and its one block released
C22_Witness ==
    /\ hist.op = "destroy"
    /\ Len(hist.preSeq) >= 2
    /\ hist.frees = 1
    /\ Live(heap) = {}

\* C24: pop_back() on an array without elements is reported as an error and
\* leaves the length 0, so that the length never exceeds the capacity.
C24_PopBackEmpty ==
    [][(hist'.op = "pop_back" /\ arr.size = 0) =>
           /\ hist'.err # "none"
           /\ arr'.size = 0
           /\ arr'.size <= arr'.capacity
      ]_vars

\* the calls of C26 that need no more capacity than the array has
NeedsNoCapacity(h, a) ==
    \/ h.op \in {"pop_back", "erase", "erase_range", "clear"}
    \/ h.op = "resize" /\ h.n <= a.size
    \/ h.op = "reserve" /\ h.n <= a.capacity
    \/ h.op \in {"push_back", "insert"} /\ a.size < a.capacity
    \/ h.op = "assign" /\ Len(h.vals) = a.size

\* the calls of C26 that may move the array to another buffer
MayReallocate(h, a) ==
    \/ h.op = "reserve" /\ h.n > a.capacity
    \/ h.op \in {"push_back", "insert"} /\ a.size = a.capacity
    \/ h.op \in {"insert_n", "insert_range"} /\ a.size + h.n > a.capacity
    \/ h.op = "resize" /\ h.n > a.capacity
    \/ h.op = "assign" /\ Len(h.vals) # a.size
    \/ h.op \in {"swap", "destroy"}

\* C26: a view of the array stays valid, that is the array keeps its buffer,
\* across pop_back, erase, clear, a shrinking resize, reserve(n) with
\* n <= capacity, push_back and single insert with length < capacity, and an
\* assignment of the same length; the array changes its buffer only in a
\* growing reserve, an insert that exceeds the capacity, an assignment of
\* another length, swap and destruction.
C26_ViewStaysValid ==
    [][/\ NeedsNoCapacity(hist', arr) => arr'.data = arr.data
       /\ arr'.data # arr.data => MayReallocate(hist', arr)
      ]_vars

\* C28: insert(position, v) before the end never reads an element of a buffer
\* that has been released: with length == capacity the last element is
\* copied into the new top slot from live storage.
C28_InsertReadsLive ==
    (hist.op = "insert" /\ hist.pos < Len(hist.preSeq)) => ~hist.dangling

\* C29: when the value argument of insert(position, value) or
\* insert(position, count, value) refers to an element of the array itself,
\* every inserted slot holds the value that element had when the call was
\* made and the other elements keep their order, wherever the element lies
\* relative to position and whether or not the call reallocates.
C29_InsertAliasedValue ==
    [][(hist'.op \in {"insert", "insert_n"} /\ hist'.err = "none") =>
           Contents(heap', arr') =
               SubSeq(hist'.preSeq, 1, hist'.pos) \o hist'.vals
                   \o SubSeq(hist'.preSeq, hist'.pos + 1, Len(hist'.preSeq))
      ]_vars

\* C30: with lengths and capacities held in SizeBits bits, reserve() on an
\* array with length == capacity > 0 leaves the capacity greater than the
\* length, so that push_back never constructs an element in a slot at or
\* beyond the capacity, and in insert(p, n, v) the new length is
\* length + n, never a wrapped value below the old length.
C30_GrowthWithinWidth ==
    [][/\ (hist'.op = "push_back" /\ hist'.err = "none"
              /\ arr.size = arr.capacity /\ arr.capacity > 0) =>
                 arr'.capacity > arr.size
       /\ hist'.op = "push_back" => ~hist'.bad /\ arr'.size <= arr'.capacity
       /\ (hist'.op = "insert_n" /\ hist'.err = "none") =>
                 arr'.size = arr.size + hist'.n /\ ~hist'.bad
      ]_vars

\* the least k with 2^k >= n
CeilLog2(n) == CHOOSE k \in 0..n : 2 ^ k >= n /\ \A j \in 0..(k - 1) : 2 ^ j < n

\* C12: starting from an array of capacity 0, n >= 1 consecutive push_back
\* calls perform at most 1 + ceil(log2(n)) reallocations; a push_back
\* reallocates only when length = capacity before the call, and every
\* reallocation after the first doubles the capacity.
C12_PushBackReallocations ==
    [][(hist'.op = "push_back" /\ hist'.err = "none") =>
         /\ hist'.run >= 1
         /\ hist'.reallocs <= 1 + CeilLog2(hist'.run)
         /\ hist'.allocs > 0 => arr.size = arr.capacity
         /\ (hist'.allocs > 0 /\ hist.reallocs > 0) =>
              arr'.capacity = 2 * arr.capacity
      ]_vars

C12_Witness ==
    /\ hist.op = "push_back"
    /\ hist.err = "none"
    /\ hist.allocs = 1
    /\ hist.run = 5
    /\ hist.reallocs = 3
    /\ arr.capacity = 8

\* C13: for 0 <= begin <= end <= length, subarray(begin, end) is a view of
\* length end - begin whose element i is the slot begin + i of the view it
\* was taken from; a write through the subarray of an array at i is read by
\* the array at begin + i, and a write to the array at begin + i is read by
\* the subarray at i.
C13_SubarrayAliases ==
    [][/\ (hist'.op = "subarray" /\ hist'.err = "none") =>
            LET src == hist'.this
                b == hist'.pos
                e == hist'.n
                sub == view'["v"]
            IN /\ sub.size = e - b
               /\ \A i \in 0..(e - b - 1) :
                    operator_index(sub, i) = operator_index(src, b + i)
               /\ ViewElems(heap', sub) = SubSeq(ViewElems(heap, src), b + 1, e)
       /\ (hist'.op = "view_write" /\ hist'.undo) =>
            /\ hist'.ret < hist'.n - hist'.pos
            /\ Contents(heap', arr) =
                 [Contents(heap, arr) EXCEPT ![hist'.pos + hist'.ret + 1] = hist'.vals[1]]
       /\ (hist'.op = "array_write" /\ hist'.undo) =>
            LET i == hist'.ret - hist'.pos
                old == ViewElems(heap, view["v"])
            IN ViewElems(heap', view["v"]) =
                 IF hist'.ret >= hist'.pos /\ hist'.ret < hist'.n
                 THEN [old EXCEPT ![i + 1] = hist'.vals[1]]
                 ELSE old
      ]_vars

C13_Witness ==
    /\ hist.op = "view_write"
    /\ hist.undo
    /\ hist.pos = 1
    /\ hist.n = 3
    /\ hist.ret = 0
    /\ arr.size = 3
    /\ Seq0 # hist.preSeq
    /\ Seq0[2] = hist.vals[1]

\* C14: subarray(begin, end) fails with PreconditionViolation, returns no
\* view and modifies nothing whenever begin > end or end > length.
C14_SubarrayOutOfRange ==
    [][(/\ hist'.op = "subarray"
        /\ hist'.pos > hist'.n \/ hist'.n > hist'.this.size) =>
         /\ hist'.err = "PreconditionViolation"
         /\ view' = view
         /\ heap' = heap
         /\ arr' = arr
      ]_vars

C14_Witness ==
    /\ hist.op = "subarray"
    /\ hist.err = "PreconditionViolation"
    /\ hist.pos <= hist.n
    /\ hist.n = hist.this.size + 1
    /\ hist.this.size >= 2
    /\ view["v"].size = 1

\* ---- the views ----
Mem0 == IF arr.data = Null THEN <<>> ELSE heap[arr.data].mem
PreMem0 == IF arr.data = Null THEN <<>> ELSE hist.preHeap[arr.data].mem

\* C5: for two equal-length views that partially overlap, swapData leaves the
\* memory as the three-step procedure does: t = copy of this view; this view
\* = rhs; rhs = t.
C5_SwapOverlapThreeStep ==
    (hist.op = "swapData" /\ ~hist.undo /\ PartialOverlap(view["v"], view["w"])) =>
        LET t == ViewElems(hist.preHeap, view["v"])
            r == ViewElems(hist.preHeap, view["w"])
        IN Mem0 = WriteAt(WriteAt(PreMem0, view["v"].off, r), view["w"].off, t)

\* C15: assignment to a view that has a backing reference fails with
\* ShapeMismatch (the PreconditionViolation of copyImpl) whenever the two
\* lengths differ, also for two views that start at the same address.
C15_AssignShapeMismatch ==
    (/\ hist.op = "assign"
     /\ hist.this.data # Null
     /\ hist.this.size # view["w"].size) =>
        hist.err = "PreconditionViolation"

\* C16: copy and swapData each fail with ShapeMismatch (the
\* PreconditionViolation of copyImpl and swapDataImpl) and modify no element
\* whenever the two lengths differ, also for two views that start at the
\* same address.
C16_CopySwapShapeMismatch ==
    (/\ hist.op \in {"copy", "swapData"}
     /\ ~hist.undo
     /\ view["v"].size # view["w"].size) =>
        /\ hist.err = "PreconditionViolation"
        /\ heap = hist.preHeap

\* C23: no call on a view (assignment, copy, swapData on identical, disjoint
\* or partially overlapping ranges) allocates or releases a block.
C23_ViewsNeverAllocate ==
    hist.op \in {"assign", "copy", "swapData"} => hist.allocs = 0 /\ hist.frees = 0

\* C25: the assignment v = w rebinds v to w's elements if and only if v has
\* no backing reference (and then touches no element); a view that has one,
\* also one of length 0 such as subarray(k, k), keeps its reference and
\* length.
C25_AssignRebindsNull ==
    [][hist'.op = "assign" =>
          IF view["v"].data = Null
          THEN /\ view'["v"] = view["w"]
               /\ heap' = heap
               /\ hist'.err = "none"
          ELSE view'["v"] = view["v"]
      ]_vars

\* a view of length 0 inside the array was assigned a view with elements
C25_Witness ==
    /\ hist.op = "assign"
    /\ hist.this.data # Null
    /\ hist.this.size = 0
    /\ hist.this.off >= 1
    /\ view["w"].size >= 1
    /\ view["v"] = hist.this

\* C6: swapData is self-inverse: calling v.swapData(w) twice in a row
\* restores every element of the memory, for identical, partially overlapping
\* and disjoint ranges.
C6_SwapTwiceRestores ==
    (hist.op = "swapData" /\ hist.undo /\ view["v"].size = view["w"].size) =>
        heap = hist.preHeap

\* C6 as amended: swapData is self-inverse for identical and for disjoint
\* ranges.
C6_SwapTwiceRestoresDisjoint ==
    (/\ hist.op = "swapData"
     /\ hist.undo
     /\ view["v"].size = view["w"].size
     /\ SameStart(view["v"], view["w"]) \/ Disjoint(view["v"], view["w"])) =>
        heap = hist.preHeap

C6_Witness ==
    /\ hist.op = "swapData"
    /\ hist.undo
    /\ hist.err = "none"
    /\ view["v"].size = 2
    /\ view["w"].size = 2
    /\ Disjoint(view["v"], view["w"])
    /\ heap = hist.preHeap

\* C7: copy is alias-correct: after v.copy(w), for equal-length views with
\* any overlap and either order of start addresses, v holds position by
\* position the elements w held before the call.
C7_CopyAliasCorrect ==
    (hist.op = "copy" /\ view["v"].size = view["w"].size) =>
        /\ hist.err = "none"
        /\ ~hist.bad
        /\ ViewElems(heap, view["v"]) = ViewElems(hist.preHeap, view["w"])

C7_Witness ==
    /\ hist.op = "copy"
    /\ PartialOverlap(view["v"], view["w"])
    /\ view["v"].off > view["w"].off
    /\ view["v"].size >= 2
    /\ heap # hist.preHeap
    /\ ViewElems(heap, view["v"]) = ViewElems(hist.preHeap, view["w"])

====
